---- MODULE Spec2Model ----
(***************************************************************************)
(* Model of magma-compute: the event-loop closure of main (src/main.rs),   *)
(* ComputeProgram::compute and Renderer::draw (src/gpu.rs), and the GPU    *)
(* and presentation engine that execute what they submit.                  *)
(*                                                                         *)
(* One control thread runs the closure; a redraw request is handled in     *)
(* three steps (compute, draw, finish) whose position is pc.  The GPU runs *)
(* asynchronously: every completion token (a vulkano GpuFuture) is a       *)
(* record in tokens, with the tokens it waits on and its execution state.  *)
(***************************************************************************)
EXTENDS Naturals, Integers, Sequences, FiniteSets

\* ------------------------------------------------------------- bounds
\* Frames (handled redraw requests) a behaviour may run.
MaxFrames == 3
\* Window events (close, keyboard, mouse, cursor, other) a behaviour may handle.
MaxEvents == 1
\* Largest cursor coordinate, in pixels, the window system reports.
MaxCoord == 1
\* Queue families a physical device may report, and queues per family.
MaxFamilies == 2
MaxQueues == 2
\* Largest width or height of the simulation domain (the swapchain's size).
MaxDomain == 130
\* Images a caller may pass to compute or draw, and descriptors a set layout
\* may declare.
MaxImages == 3
MaxDescriptors == 2

\* ------------------------------------------------------------- constants
\* Swapchain::start(..).num_images(3)
NumSwapchainImages == 3

\* The divisor of simulation_size in the dispatch dimensions.
LocalSize == 8

\* views = [ImageView(storage_images[0]), ImageView(storage_images[1])]
Views == <<0, 1>>

Keys == {"Period", "Comma", "Escape", "R", "Space", "Other"}
ElementStates == {"Pressed", "Released"}
Coords == 0..MaxCoord
Positions == Coords \X Coords

\* The steps of ComputeProgram::compute that can fail, in program order.
ComputeSteps ==
    {"NoImageDescriptor", "DescriptorSetError", "OomError", "DispatchError",
     "BuildError", "CommandBufferExecError"}

\* The steps of Renderer::draw that can fail, in program order.
DrawSteps ==
    {"AcquireError", "FramebufferCreationError", "OomError", "DescriptorSetError",
     "BeginRenderPassError", "DrawError", "BuildError", "CommandBufferExecError",
     "FlushError"}

VARIABLES
    input_view,        \* main: the view tagged input
    output_view,       \* main: the view tagged output
    compute_uniforms,  \* main: cs::ty::PushConstants
    brightness,        \* main: fragment push constant, as powers of 1.1 and 0.9
    mouse_pos,         \* main: last cursor position (numerators over dims[1])
    cursor_pos,        \* main: cursor position at the last press
    mouse_pressed,     \* main: left button held
    last_frame_end,    \* main: _last_frame_end, the token created at startup
    flow,              \* *flow, the ControlFlow the closure leaves
    pc,                \* position of the control thread in the closure:
                       \* "Idle" (outside it), "ComputeSubmitted" (compute
                       \* returned), "DrawFailing" (in a failing draw,
                       \* blocked in the drop of `before`), "RenderSubmitted"
                       \* (draw returned), "Panicked"
    destroyed,         \* the event loop has ended
    redraw_requested,  \* window.request_redraw() is pending
    tokens,            \* every completion token created so far
    compute_future,    \* RedrawRequested: local compute_future
    render_future,     \* RedrawRequested: local render_future
    swapchain,         \* state of each presentable image
    last_error,        \* the failure of compute or draw that ends the loop, or "none"
    dispatches,        \* log: the compute calls that returned Ok
    draws,             \* log: the draw calls that returned Ok
    frames_done,       \* log: number of frames that reached the swap
    nevents,           \* log: number of window events handled
    reset_requested,   \* log: the R key has been seen
    pipelines,         \* the descriptor-set layouts the two pipelines declare
    call               \* a single call of a function of gpu.rs or main.rs, for
                       \* the claims about the functions on their own

vars ==
    <<input_view, output_view, compute_uniforms, brightness, mouse_pos, cursor_pos,
      mouse_pressed, last_frame_end, flow, pc, destroyed, redraw_requested, tokens,
      compute_future, render_future, swapchain, last_error, dispatches, draws,
      frames_done, nevents, reset_requested, pipelines, call>>

\* The variables of the closure that only input handlers and the frame step touch.
frame_params == <<compute_uniforms, brightness, mouse_pos, cursor_pos, mouse_pressed>>
\* The variables owned by the GPU side and the frame step.
gpu_vars == <<tokens, compute_future, render_future, swapchain>>
logs == <<dispatches, draws, frames_done>>
\* The variables of the running program: all but `call`.
program_vars ==
    <<input_view, output_view, frame_params, last_frame_end, flow, pc, destroyed,
      redraw_requested, gpu_vars, last_error, logs, nevents, reset_requested,
      pipelines>>

\* ------------------------------------------------------------- tokens
NoToken == 0

Token(kind, deps, st, image) ==
    [kind |-> kind, deps |-> deps, st |-> st, image |-> image,
     uses |-> 0, waited |-> 0, dropped |-> FALSE]

\* sync::now(device): a token that is fulfilled from the start.
NowToken == Token("now", {}, "fulfilled", -1)

\* The tokens `ids` are each taken as a dependency by one more submission.
UseTokens(toks, ids) ==
    [i \in DOMAIN toks |->
        IF i \in ids THEN [toks[i] EXCEPT !.uses = @ + 1] ELSE toks[i]]

\* A chain is flushed to the queue: its built submissions become pending.
FlushTokens(toks, ids) ==
    [i \in DOMAIN toks |->
        IF i \in ids /\ toks[i].st = "built"
        THEN [toks[i] EXCEPT !.st = "pending"] ELSE toks[i]]

\* All dependencies of token t are fulfilled.
DepsFulfilled(toks, t) == \A d \in toks[t].deps : toks[d].st = "fulfilled"

\* No dispatch or draw has failed.
NoError == [stage |-> "none", cause |-> "none"]

\* ------------------------------------------------------------- pipelines
\* A pipeline layout is the sequence of its descriptor-set layouts, each given
\* by the number of descriptors it declares.  The shaders of main declare one
\* set with two images (compute) and one set with one image (graphics); a
\* shader without resources declares no set.
PipelineLayouts == [compute : {<< >>, <<2>>}, graphics : {<< >>, <<1>>}]

\* No function is called on its own.
NoCall == [kind |-> "none"]

\* ------------------------------------------------------------- gpu.rs calls
\* PersistentDescriptorSet::start(..), add_image and build() are the
\* library's, and the library is not part of this repository.  What the
\* builder does after an add_image that returned Err is not decided by the
\* source, which calls it through `&mut` and drops the Result:
\*   "skips"    the failed add changes nothing, later adds are tried afresh;
\*   "poisons"  the failed add poisons the builder: every later add returns
\*              Err and build() returns Err.
Builders == {"skips", "poisons"}

\* What the device and the library can do in one compute call: the images
\* whose add_image is refused, at most one failing step, and the behaviour
\* of the set builder.
ComputeEnvs(images) ==
    [reject : SUBSET (1..Len(images)),
     fail : (ComputeSteps \ {"NoImageDescriptor"}) \cup {"none"},
     builder : Builders]

\* The same for one draw call.
DrawEnvs(images) ==
    [reject : SUBSET (1..Len(images)), fail : DrawSteps \cup {"none"}]

\* PersistentDescriptorSet::start(layout): nothing bound, not poisoned.
StartSet == [bound |-> << >>, poisoned |-> FALSE]

\* set_builder.add_image(image) returns Ok on a set layout of n descriptors
\* of which set.bound are filled: not on a poisoned builder, not for an image
\* that is refused, and not when no descriptor is left.
AddOk(n, reject, i, set) ==
    ~set.poisoned /\ i \notin reject /\ Len(set.bound) < n

\* for image in images { set_builder.add_image(image.clone()); }
\* The Result of add_image is not looked at: add_image is called once for
\* every image, whatever the adds before it returned.  An add that fails
\* binds nothing; what it leaves of the builder is the builder's affair.
RECURSIVE AddImages(_, _, _, _, _)
AddImages(n, images, env, i, set) ==
    IF i > Len(images) THEN set
    ELSE AddImages(n, images, env, i + 1,
                   IF AddOk(n, env.reject, i, set)
                   THEN [set EXCEPT !.bound = Append(@, images[i])]
                   ELSE [set EXCEPT !.poisoned = @ \/ env.builder = "poisons"])

\* The images whose add_sampled_image returns Err when all before it were
\* added: draw returns at the first of them (the `?` in the loop).
RefusedImages(n, images, reject) == {i \in 1..Len(images) : i \in reject \/ i > n}

\* Faulty variant of ComputeFailure: the missing descriptor slot is only
\* found after the command buffer has been recorded and submitted.
ComputeFailureLateSlotCheck(layout, images, env) ==
    IF env.fail # "none" THEN [step |-> 3, error |-> env.fail]
    ELSE IF Len(layout) = 0 THEN [step |-> 8, error |-> "NoImageDescriptor"]
    ELSE [step |-> 8, error |-> "none"]

\* ComputeProgram::compute, the step that ends the call and its error: 1 the
\* layout of slot 0, 2 the add_image loop (never ends the call), 3 the build
\* of the descriptor set (Err on a poisoned builder and on a set that is not
\* full), 4 the command buffer, 5 dispatch, 6 build,
\* 7 then_execute, 8 the return of Ok.
ComputeFailure(layout, images, env) ==
    IF Len(layout) = 0 THEN [step |-> 1, error |-> "NoImageDescriptor"]
    ELSE IF \/ AddImages(layout[1], images, env, 1, StartSet).poisoned
            \/ Len(AddImages(layout[1], images, env, 1, StartSet).bound) # layout[1]
            \/ env.fail = "DescriptorSetError"
         THEN [step |-> 3, error |-> "DescriptorSetError"]
    ELSE IF env.fail = "OomError" THEN [step |-> 4, error |-> "OomError"]
    ELSE IF env.fail = "DispatchError" THEN [step |-> 5, error |-> "DispatchError"]
    ELSE IF env.fail = "BuildError" THEN [step |-> 6, error |-> "BuildError"]
    ELSE IF env.fail = "CommandBufferExecError"
         THEN [step |-> 7, error |-> "CommandBufferExecError"]
    ELSE [step |-> 8, error |-> "none"]

\* ComputeProgram::compute: what the caller gets and what the call did.
\*   how       "ok" (Ok returned) or "err" (a ComputeError returned)
\*   binding   the images of the descriptor set that was built, in slot
\*             order; empty when no set was built
\*   ignored   the number of add_image failures that were not reported
\*   created   a command buffer was created
\*   submitted the commands were chained after `before` (then_execute)
Compute(layout, images, env) ==
    LET f == ComputeFailure(layout, images, env)
        bound == IF Len(layout) = 0 THEN << >>
                 ELSE AddImages(layout[1], images, env, 1, StartSet).bound
    IN  [how |-> IF f.error = "none" THEN "ok" ELSE "err",
         error |-> f.error,
         binding |-> IF f.step > 3 THEN bound ELSE << >>,
         ignored |-> IF Len(layout) = 0 THEN 0 ELSE Len(images) - Len(bound),
         created |-> f.step > 4,
         submitted |-> f.step = 8]

\* Renderer::draw, the step that ends the call, how, and its error: 1
\* acquire_next_image (unwrap), 2 the framebuffer, 3 the command buffer, 4
\* descriptor_set_layouts()[0] (index), 5 the add_sampled_image loop, 6 the
\* build of the descriptor set, 7 begin_render_pass, 8 draw, 9 build, 10
\* then_execute, 11 then_signal_fence_and_flush (unwrap), 12 the return of Ok.
DrawFailure(layout, images, env) ==
    IF env.fail = "AcquireError"
    THEN [step |-> 1, how |-> "panic", error |-> "AcquireError"]
    ELSE IF env.fail = "FramebufferCreationError"
    THEN [step |-> 2, how |-> "err", error |-> "FramebufferCreationError"]
    ELSE IF env.fail = "OomError"
    THEN [step |-> 3, how |-> "err", error |-> "OomError"]
    ELSE IF Len(layout) = 0
    THEN [step |-> 4, how |-> "panic", error |-> "IndexOutOfBounds"]
    ELSE IF RefusedImages(layout[1], images, env.reject) # {}
    THEN [step |-> 5, how |-> "err", error |-> "DescriptorSetError"]
    ELSE IF Len(images) # layout[1] \/ env.fail = "DescriptorSetError"
    THEN [step |-> 6, how |-> "err", error |-> "DescriptorSetError"]
    ELSE IF env.fail = "BeginRenderPassError"
    THEN [step |-> 7, how |-> "err", error |-> "BeginRenderPassError"]
    ELSE IF env.fail = "DrawError"
    THEN [step |-> 8, how |-> "err", error |-> "DrawError"]
    ELSE IF env.fail = "BuildError"
    THEN [step |-> 9, how |-> "err", error |-> "BuildError"]
    ELSE IF env.fail = "CommandBufferExecError"
    THEN [step |-> 10, how |-> "err", error |-> "CommandBufferExecError"]
    ELSE IF env.fail = "FlushError"
    THEN [step |-> 11, how |-> "panic", error |-> "FlushError"]
    ELSE [step |-> 12, how |-> "ok", error |-> "none"]

\* Renderer::draw: what the caller gets and what the call did.
\*   how       "ok", "err" (a RendererDrawError returned) or "panic"
\*   binding   the images of the descriptor set that was built, in slot
\*             order; empty when no set was built
\*   acquired  a swapchain image was acquired (acquire_next_image returned)
\*   submitted the graphics commands were chained after the acquisition and
\*             `before` (then_execute returned Ok)
\*   presented the presentation of the acquired image was requested
\*             (then_swapchain_present was called)
\*   flushed   the chain was flushed to the queue with its fence
Draw(layout, images, env) ==
    LET f == DrawFailure(layout, images, env)
    IN  [how |-> f.how,
         error |-> f.error,
         binding |-> IF f.step > 6 THEN images ELSE << >>,
         acquired |-> f.step > 1,
         submitted |-> f.step > 10,
         presented |-> f.step > 10,
         flushed |-> f.step = 12]

\* ------------------------------------------------------------- context
\* The sequences over S of length at most n.
SeqsUpTo(S, n) == UNION {[1..k -> S] : k \in 0..n}

\* surface.is_supported(qf): Ok(true), Ok(false), or an Err of the query.
SurfaceSupport == {"OkTrue", "OkFalse", "Err"}

\* A queue family of the physical device, as QueueFamilies::find sees it.
Families ==
    [graphics : BOOLEAN, compute : BOOLEAN, present : SurfaceSupport,
     queues : 1..MaxQueues]

\* The steps of Context::new after QueueFamilies::find that can fail, in
\* program order: Device::new, Swapchain::start(..).build(), and the
\* ImageView::new of the swapchain images.
ContextSteps ==
    {"DeviceCreationError", "SwapchainCreationError", "ImageViewCreationError"}

\* |qf| qf.supports_graphics() && surface.is_supported(*qf).is_ok()
IsGraphicsFamily(qf) == qf.graphics /\ qf.present # "Err"

\* QueueFamilies::find: the first family the closure accepts is the graphics
\* family, and the compute family is that same family.  Families are named
\* by their index; 0 stands for none.
QueueFamiliesFind(families) ==
    LET found == {i \in DOMAIN families : IsGraphicsFamily(families[i])}
    IN  IF found = {}
        THEN [how |-> "err", error |-> "NoQueueFamilyFound",
              graphics |-> 0, compute |-> 0]
        ELSE LET graphics_family == CHOOSE i \in found : \A j \in found : i <= j
                 compute_family == graphics_family
             IN  [how |-> "ok", error |-> "none",
                  graphics |-> graphics_family, compute |-> compute_family]

\* QueueFamilies::as_vec: the families Device::new is asked queues of.
AsVec(qfs) == <<qfs.graphics>>

\* Context::new from QueueFamilies::find on: the `?` on find returns before
\* Device::new and Swapchain::start; `fail` is the later step that fails.
\* Device::new is asked for one queue (AsVec), which queues.next() yields.
ContextNew(families, fail) ==
    LET qfs == QueueFamiliesFind(families)
    IN  IF qfs.how = "err"
        THEN [how |-> "err", error |-> qfs.error, graphics |-> 0, compute |-> 0,
              requested |-> << >>, device |-> FALSE, swapchain |-> FALSE]
        ELSE [how |-> IF fail = "none" THEN "ok" ELSE "err",
              error |-> fail,
              graphics |-> qfs.graphics, compute |-> qfs.compute,
              requested |-> AsVec(qfs),
              device |-> fail # "DeviceCreationError",
              swapchain |-> fail \in {"none", "ImageViewCreationError"}]

\* [simulation_size[0] / 8 + 1, simulation_size[1] / 8 + 1, 1]
DispatchDimensions(simulation_size) ==
    <<simulation_size[1] \div LocalSize + 1,
      simulation_size[2] \div LocalSize + 1, 1>>

\* ------------------------------------------------------------- startup
\* main, up to event_loop.run: views[0] is tagged input and views[1] output,
\* init = 1, and _last_frame_end holds a token made by sync::now.
StartupState ==
    /\ input_view = Views[1]
    /\ output_view = Views[2]
    /\ compute_uniforms =
         [init |-> 1, mouse_pos |-> <<0, 0>>, mouse_delta |-> <<0, 0>>, dissipation |-> 0]
    /\ brightness = [up |-> 0, down |-> 0]
    /\ mouse_pos = <<0, 0>>
    /\ cursor_pos = <<0, 0>>
    /\ mouse_pressed = FALSE
    /\ tokens = <<NowToken>>
    /\ last_frame_end = 1
    /\ flow = "Poll"
    /\ pc = "Idle"
    /\ destroyed = FALSE
    /\ redraw_requested = FALSE
    /\ compute_future = NoToken
    /\ render_future = NoToken
    /\ swapchain = [i \in 0..(NumSwapchainImages - 1) |-> "free"]
    /\ last_error = NoError
    /\ dispatches = << >>
    /\ draws = << >>
    /\ frames_done = 0
    /\ nevents = 0
    /\ reset_requested = FALSE
    /\ pipelines \in PipelineLayouts

Init == StartupState /\ call = NoCall

\* ------------------------------------------------------------- input events
\* The closure can be called: the control thread is between events, the loop
\* has not ended and no panic has aborted the process.
CanHandle == pc = "Idle" /\ ~destroyed

\* A window event is delivered (bounded by MaxEvents).
CanHandleWindowEvent == CanHandle /\ nevents < MaxEvents

\* Faulty variant of AfterWindowEvent: the window-event arms swap the tags.
AfterWindowEventSwaps ==
    /\ nevents' = nevents + 1
    /\ redraw_requested' = TRUE
    /\ input_view' = output_view
    /\ output_view' = input_view
    /\ UNCHANGED <<last_frame_end, pipelines, call, pc, destroyed,
                   gpu_vars, last_error, logs>>

\* What every window-event arm leaves alone, and the request_redraw that ends
\* the closure.
AfterWindowEvent ==
    /\ nevents' = nevents + 1
    /\ redraw_requested' = TRUE
    /\ UNCHANGED <<input_view, output_view, last_frame_end, pipelines, call, pc, destroyed,
                   gpu_vars, last_error, logs>>

\* WindowEvent::CloseRequested => *flow = ControlFlow::Exit
CloseRequested ==
    /\ CanHandleWindowEvent
    /\ flow' = "Exit"
    /\ UNCHANGED <<frame_params, reset_requested>>
    /\ AfterWindowEvent

\* brightness *= 1.1 and brightness *= 0.9, kept as the two exponents.
ScaleBrightness(b, key) ==
    IF key = "Period" THEN [b EXCEPT !.up = @ + 1] ELSE [b EXCEPT !.down = @ + 1]

\* WindowEvent::KeyboardInput { input, .. }
KeyboardInput(key, state) ==
    /\ CanHandleWindowEvent
    /\ brightness' =
         IF key \in {"Period", "Comma"} /\ state = "Pressed"
         THEN ScaleBrightness(brightness, key) ELSE brightness
    /\ flow' = IF key = "Escape" THEN "Exit" ELSE flow
    /\ compute_uniforms' =
         IF key = "R" THEN [compute_uniforms EXCEPT !.init = 1]
         ELSE IF key = "Space"
              THEN [compute_uniforms EXCEPT
                        !.dissipation = IF state = "Pressed" THEN 1 ELSE 0]
              ELSE compute_uniforms
    /\ reset_requested' = (reset_requested \/ key = "R")
    /\ UNCHANGED <<mouse_pos, cursor_pos, mouse_pressed>>
    /\ AfterWindowEvent

\* WindowEvent::MouseInput { button: MouseButton::Left, state, .. }
MouseInput(state) ==
    /\ CanHandleWindowEvent
    /\ cursor_pos' =
         IF state = "Pressed" /\ ~mouse_pressed THEN mouse_pos ELSE cursor_pos
    /\ mouse_pressed' = (state = "Pressed")
    /\ UNCHANGED <<compute_uniforms, brightness, mouse_pos, flow, reset_requested>>
    /\ AfterWindowEvent

\* (new_mouse_pos - mouse_pos) * 60., per axis.
MouseDelta(new, old) == <<(new[1] - old[1]) * 60, (new[2] - old[2]) * 60>>

\* WindowEvent::CursorMoved { position, .. }
CursorMoved(position) ==
    /\ CanHandleWindowEvent
    /\ compute_uniforms' =
         [compute_uniforms EXCEPT
            !.mouse_delta = IF mouse_pressed THEN MouseDelta(position, mouse_pos) ELSE @,
            !.mouse_pos = position]
    /\ mouse_pos' = position
    /\ UNCHANGED <<brightness, cursor_pos, mouse_pressed, flow, reset_requested>>
    /\ AfterWindowEvent

\* Any other event (the `_ => {}` arms): nothing but the request_redraw.
OtherEvent ==
    /\ CanHandle
    /\ redraw_requested' = TRUE
    /\ UNCHANGED <<input_view, output_view, frame_params, last_frame_end, pipelines, call, flow, pc,
                   destroyed, gpu_vars, last_error, logs, nevents, reset_requested>>

\* A future goes out of scope without having been flushed: the `before` of
\* a compute call that returns Err before then_execute, the acquisition
\* future of a draw that returns Err, the fence future of a failed flush.
DropToken(toks, t) == [toks EXCEPT ![t].dropped = TRUE]

\* The loop ends after ControlFlow::Exit: the closure sees LoopDestroyed (an
\* `_ => {}` arm) and the process exits.  _last_frame_end is not mentioned in
\* the closure, so it is not captured by it; it stays in main's frame, and
\* event_loop.run never returns: the startup token is never dropped.
LoopDestroyed ==
    /\ CanHandle
    /\ flow = "Exit"
    /\ destroyed' = TRUE
    /\ redraw_requested' = TRUE
    /\ UNCHANGED <<input_view, output_view, frame_params, last_frame_end, pipelines, call, flow, pc,
                   gpu_vars, last_error, logs, nevents, reset_requested>>

\* ------------------------------------------------------------- frame step
\* &[input_view.clone(), output_view.clone()], the images of the dispatch.
ComputeImages(inp, out) == <<inp, out>>

\* Faulty variant of DrawImages: the draw samples the image the compute pass read.
DrawImagesInput(inp, out) == <<inp>>

\* &[output_view.clone()], the images of the draw.
DrawImages(inp, out) == <<out>>

\* The `before` argument of compute: sync::now(context.device()).boxed(), a
\* token made for this call; the running token _last_frame_end is not read.
ComputeBefore(now, running) == now

\* Faulty variant of ComputeUnwrap: the Err is swallowed and the loop goes on.
ComputeErrorIgnored(fail) == IF fail = "none" THEN "ComputeSubmitted" ELSE "Idle"

\* compute(..).unwrap(): an Err panics, an Ok goes on to the draw.
ComputeUnwrap(fail) == IF fail = "none" THEN "ComputeSubmitted" ELSE "Panicked"

\* draw(..).unwrap(), and the two unwraps inside draw: any failure panics.
DrawUnwrap(fail) == IF fail = "none" THEN "RenderSubmitted" ELSE "Panicked"

\* Where a draw call leaves the control thread: a draw that ends before
\* then_execute still owns `before`, which was built and not flushed, and
\* its drop blocks before the panic goes on.
DrawReturn(r) == IF r.submitted THEN DrawUnwrap(r.error) ELSE "DrawFailing"

\* Faulty variant of DrawJoin: `before` is not joined into the graphics submission.
DrawJoinAcquireOnly(image_future, before) == {image_future}

\* image_future.join(before): the tokens the graphics submission waits on.
DrawJoin(image_future, before) == {image_future, before}

\* Faulty variant of SwapViews: the swap is left out.
NoSwapViews(inp, out) == <<inp, out>>

\* Faulty variant of SwapViews: a swap done as two assignments without a temporary.
HalfSwapViews(inp, out) == <<out, out>>

\* std::mem::swap(&mut input_view, &mut &mut output_view)
SwapViews(inp, out) == <<out, inp>>

\* Faulty variant of EndFrameUniforms: init is not cleared.
EndFrameKeepsInit(u) == [u EXCEPT !.mouse_delta = <<0, 0>>]

\* compute_uniforms.init = 0; compute_uniforms.mouse_delta = [0.0, 0.0]
EndFrameUniforms(u) == [u EXCEPT !.init = 0, !.mouse_delta = <<0, 0>>]

\* Dropping a future that was built but not flushed (the error paths of draw
\* drop `before`) begins by flushing it to the queue; the drop then blocks
\* until the queue is idle (DropWaited).
DropUnflushed(toks, t) == FlushTokens(toks, {t})

\* The end of a drop that blocks: that of the flushed fence future returns
\* when the fence is signalled, that of a future flushed by its drop when
\* the queue is idle.
DropWaited(toks, t) == [toks EXCEPT ![t].waited = @ + 1, ![t].dropped = TRUE]

\* The futures of a finished chain are freed with the fence future that owns
\* them: what is kept of them is their record of use, not the image index.
Freed(toks) == [i \in DOMAIN toks |-> [toks[i] EXCEPT !.image = -1]]

\* Event::RedrawRequested, first step: compute_program.compute(..).unwrap().
\* ComputeProgram::compute builds the descriptor set and the command buffer and
\* chains them after `before` with then_execute; nothing is flushed yet.
RedrawCompute ==
    /\ CanHandle
    /\ redraw_requested
    /\ frames_done < MaxFrames
    /\ redraw_requested' = FALSE
    /\ \E env \in ComputeEnvs(ComputeImages(input_view, output_view)) :
         LET now == Len(tokens) + 1
             before == ComputeBefore(now, last_frame_end)
             made == Append(tokens, NowToken)
             r == Compute(pipelines.compute,
                          ComputeImages(input_view, output_view), env)
             fail == r.error
         IN  /\ pc' = ComputeUnwrap(fail)
             /\ IF r.submitted
                THEN /\ tokens' = Append(UseTokens(made, {before}),
                                         Token("compute", {before}, "built", -1))
                     /\ compute_future' = now + 1
                     /\ dispatches' = Append(dispatches,
                            [images |-> ComputeImages(input_view, output_view),
                             binding |-> r.binding,
                             push |-> compute_uniforms,
                             before |-> before,
                             token |-> now + 1,
                             flow |-> flow])
                     /\ UNCHANGED last_error
                ELSE /\ tokens' = DropToken(made, before)
                     /\ last_error' = [stage |-> "compute", cause |-> fail]
                     /\ UNCHANGED <<compute_future, dispatches>>
    /\ UNCHANGED <<input_view, output_view, frame_params, last_frame_end, pipelines, call, flow,
                   destroyed, render_future, swapchain, draws, frames_done, nevents,
                   reset_requested>>

\* Faulty variant of DrawTokens: the presentation request is chained after
\* the acquisition only, and names the first image of the swapchain.
DrawTokensPresentEarly(toks, idx, before) ==
    LET a == Len(toks) + 1
    IN  toks \o <<Token("acquire", {}, "pending", idx),
                  Token("render", DrawJoin(a, before), "built", idx),
                  Token("present", {a}, "built", 0),
                  Token("fence", {a + 1, a + 2}, "built", idx)>>

\* The four tokens of a successful draw: image acquisition, the graphics
\* submission, the presentation request and the fence that ends the chain.
DrawTokens(toks, idx, before) ==
    LET a == Len(toks) + 1
    IN  toks \o <<Token("acquire", {}, "pending", idx),
                  Token("render", DrawJoin(a, before), "built", idx),
                  Token("present", {a + 1}, "built", idx),
                  Token("fence", {a + 2}, "built", idx)>>

\* The acquisition token alone: what a draw that ends between
\* acquire_next_image and then_execute has created.
AcquireToken(toks, idx) == Append(toks, Token("acquire", {}, "pending", idx))

\* Event::RedrawRequested, second step: renderer.draw(..).unwrap().
\* Renderer::draw acquires an image (blocking until one is free), records the
\* pass, joins the acquisition token with `before`, chains execution,
\* presentation and a fence, and flushes the whole chain.  A draw that ends
\* early has done the steps before the one that failed:
\*   before the acquisition   no image is taken and no token is made, and
\*                            `before` is dropped: flushed, then waited for
\*                            (DrawDropBefore);
\*   before then_execute      the image is taken, its token is dropped with
\*                            draw's locals, and so is `before`;
\*   in the final flush       the chain was built and took its tokens, but
\*                            was not flushed, and is dropped with its fence.
RedrawDraw ==
    /\ pc = "ComputeSubmitted"
    /\ \E env \in DrawEnvs(DrawImages(input_view, output_view)) :
       LET r == Draw(pipelines.graphics, DrawImages(input_view, output_view), env)
           fail == r.error
       IN
         /\ pc' = DrawReturn(r)
         /\ IF ~r.acquired
            THEN UNCHANGED swapchain
            ELSE \E idx \in {i \in DOMAIN swapchain : swapchain[i] = "free"} :
                    swapchain' = [swapchain EXCEPT ![idx] = "acquired"]
         /\ IF r.flushed
            THEN LET a == Len(tokens) + 1
                     idx == CHOOSE i \in DOMAIN swapchain : swapchain'[i] # swapchain[i]
                     made == DrawTokens(tokens, idx, compute_future)
                     chain == made[a + 1].deps \cup {a + 1, a + 2, a + 3}
                 IN  /\ tokens' = FlushTokens(UseTokens(made, chain \ {a + 3}), chain)
                     /\ render_future' = a + 3
                     /\ draws' = Append(draws,
                            [images |-> DrawImages(input_view, output_view),
                             binding |-> r.binding,
                             push |-> brightness,
                             before |-> compute_future,
                             acquire |-> a,
                             render |-> a + 1,
                             present |-> a + 2,
                             token |-> a + 3,
                             flow |-> flow])
                     /\ UNCHANGED last_error
            ELSE /\ last_error' = [stage |-> "draw", cause |-> fail]
                 /\ UNCHANGED <<render_future, draws>>
                 /\ IF ~r.acquired
                    THEN tokens' = DropUnflushed(tokens, compute_future)
                    ELSE LET a == Len(tokens) + 1
                             idx == CHOOSE i \in DOMAIN swapchain :
                                       swapchain'[i] # swapchain[i]
                         IN  IF ~r.submitted
                             THEN tokens' =
                                    DropUnflushed(DropToken(AcquireToken(tokens, idx), a),
                                                  compute_future)
                             ELSE LET made == DrawTokens(tokens, idx, compute_future)
                                      chain == made[a + 1].deps \cup {a + 1, a + 2}
                                  IN  tokens' = DropToken(UseTokens(made, chain), a + 3)
    /\ UNCHANGED <<input_view, output_view, frame_params, last_frame_end, pipelines, call, flow,
                   destroyed, redraw_requested, compute_future, dispatches,
                   frames_done, nevents, reset_requested>>

\* The end of a draw that failed before then_execute: the drop of `before`
\* returns once the queue has run the compute commands it flushed, and the
\* panic (of the unwrap inside draw, or of draw(..).unwrap() on the Err) goes
\* on and ends the loop.
DrawDropBefore ==
    /\ pc = "DrawFailing"
    /\ tokens[compute_future].st = "fulfilled"
    /\ tokens' = DropWaited(tokens, compute_future)
    /\ pc' = DrawUnwrap(last_error.cause)
    /\ UNCHANGED <<input_view, output_view, frame_params, last_frame_end, pipelines, call, flow,
                   destroyed, redraw_requested, compute_future, render_future, swapchain,
                   last_error, logs, nevents, reset_requested>>

\* Faulty variant of RedrawFinish: render_future is let go without the wait
\* for its fence.
RedrawFinishNoWait ==
    /\ pc = "RenderSubmitted"
    /\ tokens' = Freed(DropToken(tokens, render_future))
    /\ input_view' = SwapViews(input_view, output_view)[1]
    /\ output_view' = SwapViews(input_view, output_view)[2]
    /\ compute_uniforms' = EndFrameUniforms(compute_uniforms)
    /\ frames_done' = frames_done + 1
    /\ redraw_requested' = TRUE
    /\ pc' = "Idle"
    /\ UNCHANGED <<brightness, mouse_pos, cursor_pos, mouse_pressed, last_frame_end, pipelines, call,
                   flow, destroyed, compute_future, render_future, swapchain,
                   last_error, dispatches, draws, nevents, reset_requested>>

\* Faulty variant of RedrawFinish: the RedrawRequested arm returns without
\* reaching window.request_redraw().
RedrawFinishNoRedraw ==
    /\ pc = "RenderSubmitted"
    /\ tokens[render_future].st = "fulfilled"
    /\ tokens' = Freed(DropWaited(tokens, render_future))
    /\ input_view' = SwapViews(input_view, output_view)[1]
    /\ output_view' = SwapViews(input_view, output_view)[2]
    /\ compute_uniforms' = EndFrameUniforms(compute_uniforms)
    /\ frames_done' = frames_done + 1
    /\ redraw_requested' = FALSE
    /\ pc' = "Idle"
    /\ UNCHANGED <<brightness, mouse_pos, cursor_pos, mouse_pressed, last_frame_end, pipelines, call,
                   flow, destroyed, compute_future, render_future, swapchain,
                   last_error, dispatches, draws, nevents, reset_requested>>

\* Event::RedrawRequested, last step: drop(render_future), the swap of the
\* role tags, the reset of init and mouse_delta, and the request_redraw that
\* ends the closure.
RedrawFinish ==
    /\ pc = "RenderSubmitted"
    /\ tokens[render_future].st = "fulfilled"
    /\ tokens' = Freed(DropWaited(tokens, render_future))
    /\ input_view' = SwapViews(input_view, output_view)[1]
    /\ output_view' = SwapViews(input_view, output_view)[2]
    /\ compute_uniforms' = EndFrameUniforms(compute_uniforms)
    /\ frames_done' = frames_done + 1
    /\ redraw_requested' = TRUE
    /\ pc' = "Idle"
    /\ UNCHANGED <<brightness, mouse_pos, cursor_pos, mouse_pressed, last_frame_end, pipelines, call,
                   flow, destroyed, compute_future, render_future, swapchain,
                   last_error, dispatches, draws, nevents, reset_requested>>

\* ------------------------------------------------------------- GPU
cpu_vars ==
    <<input_view, output_view, frame_params, last_frame_end, pipelines, call, flow, pc, destroyed,
      redraw_requested, compute_future, render_future, last_error, logs, nevents,
      reset_requested>>

\* The process is alive and the token exists.
Live(t) == pc # "Panicked" /\ t \in DOMAIN tokens

\* A queue submission starts once every token it waits on is fulfilled.
CanStart(toks, t) ==
    /\ toks[t].kind \in {"compute", "render"}
    /\ toks[t].st = "pending"
    /\ DepsFulfilled(toks, t)

GpuStart(t) ==
    /\ Live(t)
    /\ CanStart(tokens, t)
    /\ tokens' = [tokens EXCEPT ![t].st = "started"]
    /\ UNCHANGED <<cpu_vars, swapchain>>

GpuFinish(t) ==
    /\ Live(t)
    /\ tokens[t].st = "started"
    /\ tokens' = [tokens EXCEPT ![t].st = "fulfilled"]
    /\ UNCHANGED <<cpu_vars, swapchain>>

\* The presentation engine hands the acquired image over.
AcquireSignal(t) ==
    /\ Live(t)
    /\ tokens[t].kind = "acquire"
    /\ tokens[t].st = "pending"
    /\ tokens' = [tokens EXCEPT ![t].st = "fulfilled"]
    /\ UNCHANGED <<cpu_vars, swapchain>>

\* then_swapchain_present: the image is queued for presentation after the
\* graphics submission.
QueuePresent(t) ==
    /\ Live(t)
    /\ tokens[t].kind = "present"
    /\ tokens[t].st = "pending"
    /\ DepsFulfilled(tokens, t)
    /\ tokens' = [tokens EXCEPT ![t].st = "fulfilled"]
    /\ swapchain' = [swapchain EXCEPT ![tokens[t].image] = "presented"]
    /\ UNCHANGED cpu_vars

\* then_signal_fence_and_flush: the fence is signalled after all before it.
FenceSignal(t) ==
    /\ Live(t)
    /\ tokens[t].kind = "fence"
    /\ tokens[t].st = "pending"
    /\ DepsFulfilled(tokens, t)
    /\ tokens' = [tokens EXCEPT ![t].st = "fulfilled"]
    /\ UNCHANGED <<cpu_vars, swapchain>>

\* The presentation engine gives a presented image back.
ReleaseImage(i) ==
    /\ pc # "Panicked"
    /\ swapchain[i] = "presented"
    /\ swapchain' = [swapchain EXCEPT ![i] = "free"]
    /\ UNCHANGED <<cpu_vars, tokens>>

\* ------------------------------------------------------------- specification
TokenIds == 1..(1 + 6 * (MaxFrames + 1))

Next ==
    \/ CloseRequested
    \/ \E key \in Keys, state \in ElementStates : KeyboardInput(key, state)
    \/ \E state \in ElementStates : MouseInput(state)
    \/ \E position \in Positions : CursorMoved(position)
    \/ OtherEvent
    \/ LoopDestroyed
    \/ RedrawCompute
    \/ RedrawDraw
    \/ DrawDropBefore
    \/ RedrawFinish
    \/ \E t \in TokenIds : GpuStart(t)
    \/ \E t \in TokenIds : GpuFinish(t)
    \/ \E t \in TokenIds : AcquireSignal(t)
    \/ \E t \in TokenIds : QueuePresent(t)
    \/ \E t \in TokenIds : FenceSignal(t)
    \/ \E i \in DOMAIN swapchain : ReleaseImage(i)

Spec == Init /\ [][Next]_vars

\* One step of the GPU queue or of the presentation engine's signalling.
GpuStep ==
    \E t \in TokenIds :
        GpuStart(t) \/ GpuFinish(t) \/ AcquireSignal(t) \/ QueuePresent(t) \/ FenceSignal(t)

\* The program under the scheduling it runs with: the event loop delivers a
\* pending RedrawRequested and the control thread runs the closure to its
\* end; the GPU executes what was flushed to it; the presentation engine
\* gives presented images back.  Window events are not forced to happen.
LiveSpec ==
    /\ Init
    /\ [][Next]_vars
    /\ WF_vars(RedrawCompute)
    /\ WF_vars(RedrawDraw)
    /\ WF_vars(DrawDropBefore)
    /\ WF_vars(RedrawFinish)
    /\ WF_vars(GpuStep)
    /\ WF_vars(\E i \in DOMAIN swapchain : ReleaseImage(i))

\* ------------------------------------------------------------- single calls
\* One call of a function of gpu.rs (or of the dispatch-dimension expression
\* of main) on an input of its domain, outside the frame loop: `call` holds
\* the input, and after the call its result.
SetLayouts == {<< >>} \cup {<<n>> : n \in 0..MaxDescriptors}
ImageLists == SeqsUpTo({Views[1], Views[2]}, MaxImages)
DomainSizes == (1..MaxDomain) \X (1..MaxDomain)

Pending(kind, input) == [kind |-> kind, done |-> FALSE, input |-> input]

CallInit ==
    /\ StartupState
    /\ pipelines = [compute |-> <<2>>, graphics |-> <<1>>]
    /\ \/ \E families \in SeqsUpTo(Families, MaxFamilies),
             fail \in ContextSteps \cup {"none"} :
            call = Pending("find", [families |-> families, fail |-> fail])
       \/ \E size \in DomainSizes :
            call = Pending("dims", [size |-> size])
       \/ \E layout \in SetLayouts, images \in ImageLists :
            \E env \in ComputeEnvs(images) :
               call = Pending("compute",
                              [layout |-> layout, images |-> images, env |-> env])
       \/ \E layout \in SetLayouts, images \in ImageLists :
            \E env \in DrawEnvs(images) :
               call = Pending("draw",
                              [layout |-> layout, images |-> images, env |-> env])

Returned(result) ==
    [kind |-> call.kind, done |-> TRUE, input |-> call.input, result |-> result]

\* Context::new(&window), from QueueFamilies::find on.
CallFind ==
    /\ call.kind = "find" /\ ~call.done
    /\ call' = Returned(ContextNew(call.input.families, call.input.fail))
    /\ UNCHANGED program_vars

\* The dispatch dimensions main passes to compute.
CallDims ==
    /\ call.kind = "dims" /\ ~call.done
    /\ call' = Returned([dims |-> DispatchDimensions(call.input.size)])
    /\ UNCHANGED program_vars

\* compute_program.compute(images, .., before)
CallCompute ==
    /\ call.kind = "compute" /\ ~call.done
    /\ call' = Returned(Compute(call.input.layout, call.input.images, call.input.env))
    /\ UNCHANGED program_vars

\* renderer.draw(images, before, ..)
CallDraw ==
    /\ call.kind = "draw" /\ ~call.done
    /\ call' = Returned(Draw(call.input.layout, call.input.images, call.input.env))
    /\ UNCHANGED program_vars

CallNext == CallFind \/ CallDims \/ CallCompute \/ CallDraw

CallSpec == CallInit /\ [][CallNext]_vars

\* ------------------------------------------------------------- claims
NumDispatches == Len(dispatches)
NumDraws == Len(draws)

\* C1: the image tagged input in frame n+1 is the one tagged output in frame
\* n and the other way round, so the assignment of frame n+2 is that of frame
\* n; between frames the tags are the swapped tags of the last dispatch.
C1_RoleSwapInvolution ==
    /\ \A n \in 1..NumDispatches :
         /\ n + 1 <= NumDispatches =>
              /\ dispatches[n + 1].images[1] = dispatches[n].images[2]
              /\ dispatches[n + 1].images[2] = dispatches[n].images[1]
         /\ n + 2 <= NumDispatches =>
              dispatches[n + 2].images = dispatches[n].images
    /\ (pc = "Idle" /\ frames_done >= 1) =>
         /\ input_view = dispatches[frames_done].images[2]
         /\ output_view = dispatches[frames_done].images[1]

\* Three consecutive frames have been dispatched.
C1_Witness == NumDispatches >= 3 /\ pc = "ComputeSubmitted"

\* C2: the first dispatch waits on the token created at startup and every
\* later dispatch waits on the render-completion token of the frame before.
C2_ComputeWaitsOnPreviousFrame ==
    \A n \in 1..NumDispatches :
        dispatches[n].before =
            IF n = 1 THEN last_frame_end ELSE draws[n - 1].token

\* C3: every draw is given its frame's compute token, its graphics submission
\* waits on that token, and the submission has not started while the compute
\* submission is unfulfilled.
C3_RenderAfterCompute ==
    \A n \in 1..NumDraws :
        LET r == draws[n].render
            c == dispatches[n].token
        IN  /\ draws[n].before = c
            /\ c \in tokens[r].deps
            /\ tokens[r].st \in {"started", "fulfilled"} => tokens[c].st = "fulfilled"

\* A render pass is executing on the GPU.
C3_Witness == \E n \in 1..NumDraws : tokens[draws[n].render].st = "started"

\* C4: the two tags always name the two distinct images of the pair, and no
\* dispatch was handed the same image twice.
C4_TagsDistinct ==
    /\ input_view # output_view
    /\ {input_view, output_view} = {Views[1], Views[2]}
    /\ \A n \in 1..NumDispatches : dispatches[n].images[1] # dispatches[n].images[2]

\* The tags are swapped with respect to startup and a dispatch has seen them so.
C4_Witness ==
    /\ input_view = Views[2]
    /\ output_view = Views[1]
    /\ NumDispatches >= 2

\* C5: once a frame has run, and while the loop has not aborted, no token is
\* used more than once, a token that has been discarded was used as a
\* dependency or waited on exactly once, and when the loop has ended every
\* token created, the startup token included, has been consumed.
C5_TokensConsumedOnce ==
    (pc \notin {"DrawFailing", "Panicked"} /\ frames_done >= 1) =>
        \A t \in DOMAIN tokens :
            /\ tokens[t].uses + tokens[t].waited <= 1
            /\ tokens[t].dropped => tokens[t].uses + tokens[t].waited = 1
            /\ destroyed => tokens[t].uses + tokens[t].waited = 1

\* C6: a frame is one compute dispatch on (input, output), then one draw on
\* that output image, then one swap: the numbers of dispatches, draws and
\* swaps agree with the position in the frame, so none is skipped, repeated
\* or reordered.
C6_FrameOrder ==
    /\ pc \in {"Idle", "ComputeSubmitted", "DrawFailing", "RenderSubmitted", "Panicked"}
    /\ pc = "Idle" => NumDispatches = frames_done /\ NumDraws = frames_done
    /\ pc = "ComputeSubmitted" =>
         /\ NumDispatches = frames_done + 1
         /\ NumDraws = frames_done
         /\ dispatches[NumDispatches].images = <<input_view, output_view>>
    /\ pc = "RenderSubmitted" =>
         /\ NumDispatches = frames_done + 1
         /\ NumDraws = frames_done + 1
         /\ dispatches[NumDispatches].images = <<input_view, output_view>>
         /\ draws[NumDraws].images = <<output_view>>
    /\ pc = "DrawFailing" =>
         /\ NumDispatches = frames_done + 1
         /\ NumDraws = frames_done
    /\ pc = "Panicked" =>
         /\ NumDispatches \in {frames_done, frames_done + 1}
         /\ NumDraws = frames_done
    /\ \A n \in 1..NumDraws : draws[n].images = <<dispatches[n].images[2]>>

\* The second frame has been drawn and not yet swapped.
C6_Witness == pc = "RenderSubmitted" /\ frames_done >= 1

\* C7: the first dispatch has init = 1; as long as no reset was requested
\* every later dispatch has init = 0, and init is 0 after every frame.
C7_InitOnlyFirstFrame ==
    /\ NumDispatches >= 1 => dispatches[1].push.init = 1
    /\ ~reset_requested =>
         /\ \A n \in 2..NumDispatches : dispatches[n].push.init = 0
         /\ frames_done >= 1 => compute_uniforms.init = 0

\* Three frames have been dispatched without a reset.
C7_Witness == NumDispatches >= 3 /\ ~reset_requested

\* C8 as stated: the image tagged input on frame 3 is the one tagged output
\* on frame 1.
C8_InputOfFrame3IsOutputOfFrame1 ==
    NumDispatches >= 3 => dispatches[3].images[1] = dispatches[1].images[2]

\* C8 amended: starting from (views[0], views[1]), the image tagged input on
\* frame 3 is the one tagged input on frame 1, which is the one tagged output
\* on frame 2.
C8_InputOfFrame3IsInputOfFrame1 ==
    /\ NumDispatches >= 1 => dispatches[1].images = <<Views[1], Views[2]>>
    /\ NumDispatches >= 3 =>
         /\ dispatches[3].images[1] = dispatches[1].images[1]
         /\ dispatches[3].images[1] = dispatches[2].images[2]

\* Three frames have run to their end.
C8_Witness == NumDispatches = 3 /\ frames_done = 3

\* C9: no compute dispatch and no draw is issued once the closure has set
\* ControlFlow::Exit.
C9_NoSubmissionAfterClose ==
    /\ \A n \in 1..NumDispatches : dispatches[n].flow # "Exit"
    /\ \A n \in 1..NumDraws : draws[n].flow # "Exit"

\* C10: a failed dispatch or draw aborts the loop; the step that fails leaves
\* the role tags, the parameter blob and the number of swaps as they were, a
\* failed compute adds no draw, and from the failure on no further dispatch
\* or draw is made and no token is created (a failing draw only waits for
\* the frame's own compute commands before the panic ends the loop).
C10_FailureAborts ==
    /\ [](last_error # NoError => pc \in {"DrawFailing", "Panicked"})
    /\ [][last_error' # last_error =>
            /\ input_view' = input_view
            /\ output_view' = output_view
            /\ compute_uniforms' = compute_uniforms
            /\ frames_done' = frames_done
            /\ draws' = draws
            /\ last_error'.stage = "compute" => dispatches' = dispatches]_vars
    /\ [][(pc = "DrawFailing" \/ pc = "Panicked") =>
            /\ pc' \in {"DrawFailing", "Panicked"}
            /\ Len(tokens') = Len(tokens)
            /\ UNCHANGED <<dispatches, draws, input_view, output_view,
                           compute_uniforms>>]_vars
    /\ [][pc = "Panicked" => pc' = "Panicked" /\ tokens' = tokens]_vars

\* A draw failed in a frame after the first.
C10_Witness == pc = "Panicked" /\ last_error.stage = "draw" /\ frames_done >= 1

\* The step is a window-event arm of the closure (close request, key, mouse
\* button or cursor move).
WindowEventStep == nevents' # nevents

\* What no window-event arm touches: the tags, every token and future, the
\* swapchain and the record of the submissions made.
WindowEventFrame ==
    UNCHANGED <<input_view, output_view, last_frame_end, tokens, compute_future,
                render_future, swapchain, dispatches, draws, frames_done, pc,
                last_error, pipelines>>

\* The tags change in the last step of the frame step only, which swaps them;
\* the compute and draw steps, the GPU and the window-event arms leave them.
OnlyFrameStepSwaps ==
    (input_view' # input_view \/ output_view' # output_view) =>
        /\ pc = "RenderSubmitted"
        /\ pc' = "Idle"
        /\ frames_done' = frames_done + 1
        /\ input_view' = output_view
        /\ output_view' = input_view

\* C21 as stated: only the frame step swaps the tags, and the window-event
\* arms make no submission and change nothing but brightness, init,
\* dissipation, the mouse positions and the mouse delta.  This fails: the
\* close request and Escape set *flow, and the mouse button sets mouse_pressed.
C21_HandlersChangeOnlyFrameParameters ==
    [][/\ OnlyFrameStepSwaps
       /\ WindowEventStep =>
            /\ WindowEventFrame
            /\ UNCHANGED <<flow, mouse_pressed>>]_vars

\* C21, amended: only the frame step swaps the tags; the window-event arms
\* make no submission, touch no token and no tag, and change only the frame
\* parameters (brightness, init, dissipation, mouse positions and delta), the
\* button state mouse_pressed and *flow, which can only become Exit; each
\* ends with the redraw request.
C21_OnlyFrameStepSwapsTags ==
    [][/\ OnlyFrameStepSwaps
       /\ WindowEventStep =>
            /\ WindowEventFrame
            /\ flow' \in {flow, "Exit"}
            /\ redraw_requested']_vars

\* A frame has swapped the tags, and a window-event arm has run since the
\* start and left them so.
C21_Witness ==
    /\ frames_done = 1
    /\ input_view = Views[2]
    /\ output_view = Views[1]
    /\ nevents >= 1
    /\ pc = "Idle"

\* The queue has begun, or finished, executing the submission of token t.
Executing(t) == tokens[t].st \in {"started", "fulfilled"}

\* C22: the compute submission of frame n+1 writes the image the compute of
\* frame n read, and reads the image that compute wrote and the render of
\* frame n samples; it does not begin executing before the compute and the
\* render submissions of frame n have completed.  At no time are two
\* submissions executing at once.
C22_NoOverlapAcrossFrames ==
    /\ \A n \in 1..NumDispatches :
         n + 1 <= NumDispatches =>
            /\ n <= NumDraws
            /\ dispatches[n + 1].binding[2] = dispatches[n].binding[1]
            /\ dispatches[n + 1].binding[1] = dispatches[n].binding[2]
            /\ dispatches[n + 1].binding[1] = draws[n].binding[1]
            /\ Executing(dispatches[n + 1].token) =>
                 /\ tokens[dispatches[n].token].st = "fulfilled"
                 /\ tokens[draws[n].render].st = "fulfilled"
                 /\ tokens[draws[n].token].st = "fulfilled"
    /\ Cardinality({t \in DOMAIN tokens : tokens[t].st = "started"}) <= 1

\* The compute submission of the second frame is executing.
C22_Witness ==
    /\ NumDispatches >= 2
    /\ tokens[dispatches[2].token].st = "started"

\* C23: every step that returns from the closure (a window event, any other
\* event, a finished redraw) ends by requesting a redraw, so between events a
\* redraw is pending; and while no close is
\* observed and no dispatch or draw fails, a pending redraw leads to one more
\* completed frame (for as many frames as a behaviour may run).
C23_LoopNeverStalls ==
    /\ [][(pc' = "Idle" /\ swapchain' = swapchain) => redraw_requested']_vars
    /\ []((pc = "Idle" /\ ~destroyed /\ nevents + frames_done > 0) => redraw_requested)
    /\ \A k \in 0..(MaxFrames - 1) :
         (frames_done = k /\ redraw_requested /\ pc = "Idle" /\ ~destroyed)
            ~> (frames_done > k \/ flow = "Exit" \/ pc = "Panicked")

\* After a window event and two frames a third frame has been run, with no
\* close request and no failure.
C23_Witness ==
    /\ frames_done = MaxFrames
    /\ nevents >= 1
    /\ flow # "Exit"
    /\ pc = "Idle"
    /\ redraw_requested

\* ------------------------------------------------------------- claims on single calls
\* A call of the given kind has returned.
Done(kind) == call.kind = kind /\ call.done

\* The first index of a sequence whose element satisfies a test, 0 for none.
FirstOf(hits) == IF hits = {} THEN 0 ELSE CHOOSE i \in hits : \A j \in hits : i <= j

\* C11: the compute family is the graphics family when that family supports
\* compute and has more than one queue, otherwise the first other family that
\* supports compute, and selection fails with NoQueueFamilyFound when there is
\* none (so A{graphics, presentable, 1 queue}, B{compute, 2 queues} gives
\* graphics = A and compute = B).  The code does not do this: it takes the
\* graphics family as compute family whatever it supports.
C11_ComputeFamilyPreference ==
    (Done("find") /\ call.input.fail = "none" /\ call.result.graphics # 0) =>
        LET families == call.input.families
            g == call.result.graphics
            other == FirstOf({i \in DOMAIN families : i # g /\ families[i].compute})
        IN  IF families[g].compute /\ families[g].queues > 1
            THEN call.result.how = "ok" /\ call.result.compute = g
            ELSE IF other # 0
            THEN call.result.how = "ok" /\ call.result.compute = other
            ELSE call.result.error = "NoQueueFamilyFound"

\* C12: the graphics family is the first family that supports graphics and
\* presentation to the surface, and with no such family context creation fails
\* with NoQueueFamilyFound before a device or a swapchain is created.  The
\* code does not do this: it accepts a family whose presentation query
\* answers Ok(false).
C12_GraphicsFamilyPresents ==
    (Done("find") /\ call.input.fail = "none") =>
        LET families == call.input.families
            want == FirstOf({i \in DOMAIN families :
                               /\ families[i].graphics
                               /\ families[i].present = "OkTrue"})
        IN  IF want = 0
            THEN /\ call.result.error = "NoQueueFamilyFound"
                 /\ ~call.result.device
                 /\ ~call.result.swapchain
            ELSE call.result.how = "ok" /\ call.result.graphics = want

\* Ceiling division of naturals.
CeilDiv(a, b) == (a + b - 1) \div b

\* C13: the group counts passed to the dispatch are ceil(W / 8) on x,
\* ceil(H / 8) on y and 1 on z (128 gives 16, 130 gives 17).  The code does
\* not do this: it passes W / 8 + 1, one group more whenever 8 divides W.
C13_GroupCountsAreCeiling ==
    Done("dims") =>
        call.result.dims = <<CeilDiv(call.input.size[1], LocalSize),
                             CeilDiv(call.input.size[2], LocalSize), 1>>

\* C15: compute on a pipeline without descriptor slot 0 returns
\* NoImageDescriptor whatever else the device would do; no command buffer is
\* created, nothing is submitted, and no token (the `before` of the call
\* included) is taken by a submission.
C15_NoSlotNoSubmission ==
    pipelines.compute = << >> =>
        /\ \A env \in ComputeEnvs(ComputeImages(input_view, output_view)) :
             LET r == Compute(pipelines.compute,
                              ComputeImages(input_view, output_view), env)
             IN  /\ r.how = "err"
                 /\ r.error = "NoImageDescriptor"
                 /\ ~r.created
                 /\ ~r.submitted
        /\ dispatches = << >>
        /\ \A t \in DOMAIN tokens : tokens[t].kind = "now" /\ tokens[t].uses = 0
        /\ pc = "Panicked" =>
             last_error = [stage |-> "compute", cause |-> "NoImageDescriptor"]

\* compute was called on such a pipeline: its `before` token was made and
\* dropped, and the unwrap has ended the loop.
C15_Witness ==
    /\ pipelines.compute = << >>
    /\ pc = "Panicked"
    /\ Len(tokens) = 2
    /\ tokens[2].dropped

ComputeFailedAdds(layout, images, env) ==
    IF Len(layout) = 0 THEN 0
    ELSE Len(images) - Len(AddImages(layout[1], images, env, 1, StartSet).bound)

C18_DrawFailuresReturned ==
    (Done("draw") /\ call.result.error \in DrawSteps \ {"AcquireError"}) =>
        /\ call.result.how = "err"
        /\ ~call.result.presented

\* C19: draw on a graphics pipeline that declares no descriptor set goes
\* through acquire, record, submit and present without a descriptor binding.
\* The code does not do this: it indexes descriptor_set_layouts()[0].
C19_DrawWithoutSlots ==
    (Done("draw") /\ Len(call.input.layout) = 0 /\ call.input.env.fail = "none") =>
        /\ call.result.how = "ok"
        /\ call.result.binding = << >>
        /\ call.result.acquired
        /\ call.result.submitted
        /\ call.result.presented

\* C20: in every successful draw the graphics submission waits on exactly the
\* acquisition token and the caller's token; the presentation request waits
\* on that submission, is for the image the draw acquired, and that image is
\* not presented before the request runs; the returned token waits on the
\* presentation and is not fulfilled before it.
C20_DrawChain ==
    \A n \in 1..NumDraws :
        LET a == draws[n].acquire
            r == draws[n].render
            p == draws[n].present
            f == draws[n].token
        IN  /\ tokens[r].deps = {a, draws[n].before}
            /\ tokens[r].st \in {"started", "fulfilled"} =>
                 /\ tokens[a].st = "fulfilled"
                 /\ tokens[draws[n].before].st = "fulfilled"
            /\ tokens[p].deps = {r}
            /\ tokens[p].st = "fulfilled" => tokens[r].st = "fulfilled"
            /\ tokens[p].image = tokens[a].image
            /\ (n = NumDraws /\ pc = "RenderSubmitted") =>
                 /\ tokens[a].image \in DOMAIN swapchain
                 /\ tokens[p].st # "fulfilled" =>
                      /\ swapchain[tokens[a].image] = "acquired"
                      /\ \A i \in DOMAIN swapchain :
                           i # tokens[a].image => swapchain[i] # "acquired"
            /\ tokens[f].deps = {p}
            /\ tokens[f].st = "fulfilled" => tokens[p].st = "fulfilled"

\* A draw that acquired an image other than the first has presented it, and
\* its fence is not yet signalled.
C20_Witness ==
    /\ pc = "RenderSubmitted"
    /\ NumDraws >= 1
    /\ tokens[draws[NumDraws].present].st = "fulfilled"
    /\ tokens[draws[NumDraws].present].image # 0
    /\ swapchain[tokens[draws[NumDraws].present].image] = "presented"
    /\ tokens[draws[NumDraws].token].st = "pending"

====
